---------------------------- MODULE Spec2Model ----------------------------
(***************************************************************************)
(* Model of sprite-decoder.js: the run-length varint codec (rle_encode,    *)
(* rle_decode), the bitplane decompressor decompress_bp and the example    *)
(* stream of the script.                                                   *)
(*                                                                         *)
(* JavaScript strings are sequences of one-character strings ("0", "1",    *)
(* "-"); a JavaScript number that may be NaN is a record [nan, val].       *)
(* Bitwise operators work on 32-bit signed integers, as in JavaScript.     *)
(***************************************************************************)
EXTENDS Integers, Sequences, FiniteSets, TLC

VARIABLES
    pc,            \* position of the script / of the function being run
    n,             \* rle_encode: the run length given
    v,             \* rle_encode: local v
    l,             \* rle_encode: local l
    encoded,       \* rle_encode's result, rle_decode's argument
    tail,          \* bits a caller appends after a codeword
    decoded,       \* rle_decode's result
    outcome,       \* how rle_decode ended: "pending", "returned", "threw"
    bitplane,      \* decompress_bp: its argument
    isRle,         \* decompress_bp: local isRle
    decompressed,  \* decompress_bp: local decompressed
    i,             \* decompress_bp: loop index
    ret,           \* decompress_bp: what the call returned
    totalPairs,    \* pairs the caller expects of a plane
    reading        \* how the 00 pair ending a data packet is read

vars == <<pc, n, v, l, encoded, tail, decoded, outcome,
          bitplane, isRle, decompressed, i, ret, totalPairs, reading>>

codecVars == <<n, v, l, encoded, tail, decoded, outcome>>
planeVars == <<bitplane, isRle, decompressed, i, ret, totalPairs, reading>>

---------------------------------------------------------------------------
(* Bounds of the model *)

MaxN == 100000
MaxEncoded == 16383
MaxStreamRun == 40
MaxTail == 3
MaxBits == 7
MaxPairs == 3

---------------------------------------------------------------------------
(* JavaScript values *)

Num(x) == [nan |-> FALSE, val |-> x]
NaN == [nan |-> TRUE, val |-> 0]

JsAdd(a, b) == IF a.nan \/ b.nan THEN NaN ELSE Num(a.val + b.val)

RECURSIVE Digits2(_)
Digits2(x) == IF x < 2 THEN <<IF x = 1 THEN "1" ELSE "0">>
              ELSE Append(Digits2(x \div 2), IF x % 2 = 1 THEN "1" ELSE "0")

\* Number.prototype.toString(2) of an integer
toString2(x) == IF x < 0 THEN <<"-">> \o Digits2(0 - x) ELSE Digits2(x)

\* String.prototype.charAt: the empty string past the end
charAt(s, k) == IF k >= 0 /\ k < Len(s) THEN <<s[k + 1]>> ELSE <<>>

\* `c == 0` for a string c: ToNumber("") = ToNumber("0") = 0, ToNumber("-") is NaN
LooseEqZero(c) == c = <<>> \/ c = <<"0">>

RECURSIVE DigitRun(_, _, _)
\* the value of the binary digits of s from index k on, up to the first
\* character that is no binary digit; acc is the value so far
DigitRun(s, k, acc) ==
    IF k <= Len(s) /\ s[k] \in {"0", "1"}
    THEN DigitRun(s, k + 1, 2 * acc + (IF s[k] = "1" THEN 1 ELSE 0))
    ELSE acc

\* parseInt(s, 2): an optional sign, then binary digits; NaN without a digit
parseInt2(s) ==
    LET neg == Len(s) >= 1 /\ s[1] = "-"
        first == IF neg THEN 2 ELSE 1
    IN  IF first > Len(s) \/ s[first] \notin {"0", "1"} THEN NaN
        ELSE Num((IF neg THEN -1 ELSE 1) * DigitRun(s, first, 0))

\* a << c on a 32-bit signed a: the count is taken modulo 32, the result wraps
ShiftLeft32(a, c) ==
    LET s == c % 32
    IN  IF s = 0 THEN a
        ELSE LET low == (a % (2 ^ (31 - s))) * (2 ^ s)
                 top == (a \div (2 ^ (31 - s))) % 2
             IN  IF top = 1 THEN (low - 2 ^ 30) - 2 ^ 30 ELSE low

RECURSIVE BitOr32(_, _)
\* a | b on 32-bit signed integers (two's complement)
BitOr32(a, b) ==
    IF a = 0 THEN b
    ELSE IF b = 0 THEN a
    ELSE IF a = -1 \/ b = -1 THEN -1
    ELSE 2 * BitOr32(a \div 2, b \div 2)
         + (IF a % 2 = 1 \/ b % 2 = 1 THEN 1 ELSE 0)

---------------------------------------------------------------------------
(* rle_encode *)

\* n = n + 1
rle_x(m) == m + 1

\* let v = n - Math.pow(2, n.toString(2).length - 1)
rle_v(m) == rle_x(m) - 2 ^ (Len(toString2(rle_x(m))) - 1)

\* l with the wrong offset: n - v - 1
rle_l_OffByOne(m) == rle_x(m) - rle_v(m) - 1

\* let l = n - v - 0b10
rle_l(m) == rle_x(m) - rle_v(m) - 2

\* a shift count one short
rle_shift_Short(m) == Len(toString2(rle_l(m))) - 1

\* the shift count l.toString(2).length
rle_shift(m) == Len(toString2(rle_l(m)))

\* the residual v left out of the result
rle_encode_NoResidual(m) == ShiftLeft32(rle_l(m), rle_shift(m))

\* let encoded = (l << l.toString(2).length) | v
rle_encode(m) == BitOr32(ShiftLeft32(rle_l(m), rle_shift(m)), rle_v(m))

---------------------------------------------------------------------------
(* rle_decode *)

RECURSIVE PrefixLoop_BreakFirst(_, _, _)
\* the first loop breaking before it appends the terminating character
PrefixLoop_BreakFirst(strN, k, acc) ==
    IF k < Len(strN)
    THEN LET c == charAt(strN, k)
         IN  IF LooseEqZero(c) THEN acc
             ELSE PrefixLoop_BreakFirst(strN, k + 1, acc \o c)
    ELSE acc

RECURSIVE PrefixLoop(_, _, _)
\* the first loop: l collects characters up to and including the first
\* one that is == 0
PrefixLoop(strN, k, acc) ==
    IF k < Len(strN)
    THEN LET c == charAt(strN, k)
         IN  IF LooseEqZero(c) THEN acc \o c
             ELSE PrefixLoop(strN, k + 1, acc \o c)
    ELSE acc

RECURSIVE ResidualLoop(_, _, _, _)
\* the second loop: n collects the characters at l.length .. 2 * l.length - 1
ResidualLoop(strN, k, bound, acc) ==
    IF k < bound THEN ResidualLoop(strN, k + 1, bound, acc \o charAt(strN, k))
    ELSE acc

\* the prefix string l of rle_decode
rle_decode_l(strN) == PrefixLoop(strN, 0, <<>>)

\* the residual string without `if (!n) n='0'`
rle_decode_n_NoDefault(strN) ==
    ResidualLoop(strN, Len(PrefixLoop(strN, 0, <<>>)),
                 2 * Len(PrefixLoop(strN, 0, <<>>)), <<>>)

\* the residual string n of rle_decode, with `if (!n) n='0'`
rle_decode_n(strN) ==
    LET pl == rle_decode_l(strN)
        r == ResidualLoop(strN, Len(pl), 2 * Len(pl), <<>>)
    IN  IF r = <<>> THEN <<"0">> ELSE r

\* the body of rle_decode without its final + 1
rle_decode_str_NoInc(strN) ==
    JsAdd(parseInt2(PrefixLoop(strN, 0, <<>>)),
          parseInt2(LET r == ResidualLoop(strN, Len(PrefixLoop(strN, 0, <<>>)),
                                          2 * Len(PrefixLoop(strN, 0, <<>>)), <<>>)
                    IN  IF r = <<>> THEN <<"0">> ELSE r))

\* the body of rle_decode on the digit string strN
rle_decode_str(strN) ==
    JsAdd(JsAdd(parseInt2(rle_decode_l(strN)), parseInt2(rle_decode_n(strN))),
          Num(1))

\* rle_decode(encoded): works on encoded.toString(2)
rle_decode(e) == rle_decode_str(toString2(e))

---------------------------------------------------------------------------
(* The script's calls of the codec: encode a run length, decode the result *)

NoPlane ==
    /\ bitplane = <<>>
    /\ isRle = FALSE
    /\ decompressed = <<>>
    /\ i = 0
    /\ ret = [defined |-> FALSE, bits |-> <<>>]
    /\ totalPairs = 0
    /\ reading = "none"

Init ==
    /\ pc = "encode"
    /\ n \in 1..MaxN
    /\ v = 0
    /\ l = 0
    /\ encoded = 0
    /\ tail = <<>>
    /\ decoded = Num(0)
    /\ outcome = "pending"
    /\ NoPlane

Encode ==
    /\ pc = "encode"
    /\ v' = rle_v(n)
    /\ l' = rle_l(n)
    /\ encoded' = rle_encode(n)
    /\ pc' = "decode"
    /\ UNCHANGED <<n, tail, decoded, outcome>>
    /\ UNCHANGED planeVars

\* a call rle_decode(encoded); rle_decode has no throw and calls nothing that
\* throws on a number, so every call returns
Decode ==
    /\ pc \in {"decode", "decode_stream"}
    /\ decoded' = rle_decode(encoded)
    /\ outcome' = "returned"
    /\ pc' = IF pc = "decode" THEN "done" ELSE "stream_done"
    /\ UNCHANGED <<n, v, l, encoded, tail>>
    /\ UNCHANGED planeVars

Next == Encode \/ Decode

Spec == Init /\ [][Next]_vars

---------------------------------------------------------------------------
(* rle_decode on an arbitrary number, as in rle_decode(0b01)               *)

InitDecode ==
    /\ pc = "decode"
    /\ n = 0
    /\ v = 0
    /\ l = 0
    /\ encoded \in 0..MaxEncoded
    /\ tail = <<>>
    /\ decoded = Num(0)
    /\ outcome = "pending"
    /\ NoPlane

NextDecode == Decode

SpecDecode == InitDecode /\ [][NextDecode]_vars

---------------------------------------------------------------------------
(* rle_decode on a codeword with further bits after it, as in              *)
(* rle_decode(0b11110_01110_111111)                                        *)

\* the bit strings of at most m bits
BitStrings(m) == UNION {[1..j -> {"0", "1"}] : j \in 0..m}

InitStream ==
    /\ pc = "encode"
    /\ n \in 1..MaxStreamRun
    /\ v = 0
    /\ l = 0
    /\ encoded = 0
    /\ tail \in BitStrings(MaxTail)
    /\ decoded = Num(0)
    /\ outcome = "pending"
    /\ NoPlane

\* the number literal made of the codeword's bits and then the bits of tail
AppendTail ==
    /\ pc = "decode"
    /\ encoded' = encoded * 2 ^ Len(tail) + DigitRun(tail, 1, 0)
    /\ pc' = "decode_stream"
    /\ UNCHANGED <<n, v, l, tail, decoded, outcome>>
    /\ UNCHANGED planeVars

NextStream == Encode \/ AppendTail \/ Decode

SpecStream == InitStream /\ [][NextStream]_vars

---------------------------------------------------------------------------
(* decompress_bp as the script defines it *)

Undefined == [defined |-> FALSE, bits |-> <<>>]

NoCodec ==
    /\ n = 0
    /\ v = 0
    /\ l = 0
    /\ encoded = 0
    /\ tail = <<>>
    /\ decoded = Num(0)
    /\ outcome = "pending"

InitBp ==
    /\ pc = "bp_call"
    /\ bitplane \in BitStrings(MaxBits)
    /\ totalPairs \in 1..MaxPairs
    /\ isRle = FALSE
    /\ decompressed = <<>>
    /\ i = 0
    /\ ret = Undefined
    /\ reading = "none"
    /\ NoCodec

\* let isRle = bitplane.charAt(0) == '0'; let decompressed = ''; let i = 1
BpEnter ==
    /\ pc = "bp_call"
    /\ isRle' = (charAt(bitplane, 0) = <<"0">>)
    /\ decompressed' = <<>>
    /\ i' = 1
    /\ pc' = "bp_loop"
    /\ UNCHANGED <<bitplane, ret, totalPairs, reading>>
    /\ UNCHANGED codecVars

\* one turn of the for loop: `if (isRle) { }` has an empty block and no else
BpStep ==
    /\ pc = "bp_loop"
    /\ i < Len(bitplane)
    /\ i' = i + 1
    /\ UNCHANGED <<pc, bitplane, isRle, decompressed, ret, totalPairs, reading>>
    /\ UNCHANGED codecVars

\* the loop ends and the function falls off its end: it returns undefined
BpReturn ==
    /\ pc = "bp_loop"
    /\ ~(i < Len(bitplane))
    /\ ret' = Undefined
    /\ pc' = "bp_done"
    /\ UNCHANGED <<bitplane, isRle, decompressed, i, totalPairs, reading>>
    /\ UNCHANGED codecVars

NextBp == BpEnter \/ BpStep \/ BpReturn

SpecBp == InitBp /\ [][NextBp]_vars

---------------------------------------------------------------------------
(* The example stream of the script and the packet format of its notes     *)

\* let compressed = 0b0100110110011010_0011111110100011_011110110101000
compressed ==
    <<"0", "1", "0", "0", "1", "1", "0", "1", "1", "0", "0", "1", "1", "0", "1", "0",
      "0", "0", "1", "1", "1", "1", "1", "1", "1", "0", "1", "0", "0", "0", "1", "1",
      "0", "1", "1", "1", "1", "0", "1", "1", "0", "1", "0", "1", "0", "0", "0">>

\* let decompressed = 0b0000000010110000_..._10111101101010n
decompressedExample ==
    <<"0", "0", "0", "0", "0", "0", "0", "0", "1", "0", "1", "1", "0", "0", "0", "0",
      "0", "0", "0", "0", "0", "0", "0", "0", "0", "0", "0", "0", "0", "0", "0", "0",
      "0", "0", "0", "1", "1", "1", "1", "1", "1", "1", "0", "1", "0", "0", "0", "0",
      "1", "0", "1", "1", "1", "1", "0", "1", "1", "0", "1", "0", "1", "0">>

\* the characters of s from index k (counted from 0) on
From(s, k) == SubSeq(s, k + 1, Len(s))

RECURSIVE DataPairs(_, _)
\* the bits of the pairs of s from index k on, up to the first 00 pair or
\* the last whole pair
DataPairs(s, k) ==
    IF k + 2 > Len(s) \/ (s[k + 1] = "0" /\ s[k + 2] = "0") THEN <<>>
    ELSE <<s[k + 1], s[k + 2]>> \o DataPairs(s, k + 2)

\* a data packet at index k ends with a 00 pair (and not with the stream)
DataEndsWithZeroPair(s, k) == k + Len(DataPairs(s, k)) + 2 <= Len(s)

Zeros(m) == [j \in 1..m |-> "0"]

\* the first w characters of s
Keep(s, w) == IF Len(s) <= w THEN s ELSE SubSeq(s, 1, w)

InitPk ==
    /\ pc = "pk_call"
    /\ \/ bitplane = compressed /\ totalPairs = Len(decompressedExample) \div 2
       \/ bitplane \in BitStrings(MaxBits) /\ totalPairs \in 1..MaxPairs
    /\ reading \in {"terminator", "codeword"}
    /\ isRle = FALSE
    /\ decompressed = <<>>
    /\ i = 0
    /\ ret = Undefined
    /\ NoCodec

\* the first bit names the type of the first packet (0: run)
PkEnter ==
    /\ pc = "pk_call"
    /\ isRle' = (charAt(bitplane, 0) = <<"0">>)
    /\ decompressed' = <<>>
    /\ i' = 1
    /\ pc' = "pk_loop"
    /\ UNCHANGED <<bitplane, ret, totalPairs, reading>>
    /\ UNCHANGED codecVars

\* a run packet: a run length read by the rule of rle_decode at the cursor,
\* that many 00 pairs put out, the 2k bits of the codeword consumed
PkRun ==
    /\ pc = "pk_loop"
    /\ Len(decompressed) < 2 * totalPairs
    /\ i < Len(bitplane)
    /\ isRle
    /\ LET rest == From(bitplane, i)
           run == rle_decode_str(rest)
       IN  /\ decompressed' =
                 Keep(decompressed \o Zeros(2 * run.val), 2 * totalPairs)
           /\ i' = i + 2 * Len(rle_decode_l(rest))
    /\ isRle' = FALSE
    /\ UNCHANGED <<pc, bitplane, ret, totalPairs, reading>>
    /\ UNCHANGED codecVars

\* a data packet: pairs copied until a 00 pair is reached. Read as a
\* terminator the 00 pair is consumed; read as the start of the next
\* codeword it is left at the cursor
PkData ==
    /\ pc = "pk_loop"
    /\ Len(decompressed) < 2 * totalPairs
    /\ i < Len(bitplane)
    /\ ~isRle
    /\ LET data == DataPairs(bitplane, i)
       IN  /\ decompressed' = Keep(decompressed \o data, 2 * totalPairs)
           /\ i' = IF ~DataEndsWithZeroPair(bitplane, i) THEN Len(bitplane)
                   ELSE IF reading = "terminator" THEN i + Len(data) + 2
                   ELSE i + Len(data)
    /\ isRle' = TRUE
    /\ UNCHANGED <<pc, bitplane, ret, totalPairs, reading>>
    /\ UNCHANGED codecVars

\* the plane is complete
PkReturn ==
    /\ pc = "pk_loop"
    /\ Len(decompressed) >= 2 * totalPairs
    /\ ret' = [defined |-> TRUE, bits |-> decompressed]
    /\ pc' = "pk_done"
    /\ UNCHANGED <<bitplane, isRle, decompressed, i, totalPairs, reading>>
    /\ UNCHANGED codecVars

\* the stream ends before the plane is complete
PkExhausted ==
    /\ pc = "pk_loop"
    /\ Len(decompressed) < 2 * totalPairs
    /\ ~(i < Len(bitplane))
    /\ ret' = Undefined
    /\ pc' = "pk_error"
    /\ UNCHANGED <<bitplane, isRle, decompressed, i, totalPairs, reading>>
    /\ UNCHANGED codecVars

NextPk == PkEnter \/ PkRun \/ PkData \/ PkReturn \/ PkExhausted

SpecPk == InitPk /\ [][NextPk]_vars

---------------------------------------------------------------------------
(* Notions the properties of the codec are stated with *)

RECURSIVE BitLen(_)
\* the number of bits of x >= 0 written without leading zeros (1 for 0)
BitLen(x) == IF x < 2 THEN 1 ELSE 1 + BitLen(x \div 2)

\* k of a run length m: the number of bits of m + 1, minus 1
KOf(m) == BitLen(m + 1) - 1

\* the digit string s written in at least w characters, zeros in front
PadLeft(s, w) == IF Len(s) >= w THEN s ELSE [j \in 1..(w - Len(s)) |-> "0"] \o s

\* the codeword of run length m: the number e in 2k bits
CodewordOf(m, e) == PadLeft(toString2(e), 2 * KOf(m))

\* the run lengths the script asserts rle_encode on reach up to this one
MaxVectorRun == 63282

\* the largest plane: 7 x 7 tiles of 8 x 8 pixels
TilePlanePairs == 7 * 7 * 8 * 8

ClaimedRoundTripRange == 1..100000

RECURSIVE EncodeRange(_, _)
\* <<rle_encode(lo), ..., rle_encode(hi)>>
EncodeRange(lo, hi) ==
    IF lo = hi THEN <<rle_encode(lo)>>
    ELSE LET mid == (lo + hi) \div 2
         IN  EncodeRange(lo, mid) \o EncodeRange(mid + 1, hi)

\* rle_encode of every run length of a plane
EncodeTable == EncodeRange(1, TilePlanePairs)

RECURSIVE WidthRange(_, _)
\* <<2 * KOf(lo), ..., 2 * KOf(hi)>>
WidthRange(lo, hi) ==
    IF lo = hi THEN <<2 * KOf(lo)>>
    ELSE LET mid == (lo + hi) \div 2
         IN  WidthRange(lo, mid) \o WidthRange(mid + 1, hi)

\* the width 2k of the codeword of every run length of a plane
WidthTable == WidthRange(1, TilePlanePairs)

\* the a-bit word of value x is a prefix of the b-bit word of value y
IsWordPrefix(x, a, y, b) == a <= b /\ (y \div (2 ^ (b - a))) = x

---------------------------------------------------------------------------
(* C1: round trip. For every n in 1..100000, rle_decode(rle_encode(n)) is  *)
(* n, with the 32-bit shift and or of rle_encode.                          *)
C1_RoundTrip ==
    (pc = "done" /\ n \in ClaimedRoundTripRange)
        => (outcome = "returned" /\ ~decoded.nan /\ decoded.val = n)

C9_NoOverlap ==
    (pc # "encode" /\ n + 1 < 2 ^ 16) =>
        LET k == KOf(n)
            cw == CodewordOf(n, encoded)
        IN  /\ 0 <= v /\ v < 2 ^ k
            /\ l = 2 ^ k - 2
            /\ rle_shift(n) = k
            /\ encoded = l * 2 ^ k + v
            /\ 0 <= encoded /\ encoded < 2 ^ (2 * k)
            /\ Len(cw) = 2 * k
            /\ \A j \in 1..(k - 1) : cw[j] = "1"
            /\ cw[k] = "0"

C9_Witness == pc = "decode" /\ n + 1 = 2 ^ 16 - 1 /\ l = 2 ^ 15 - 2 /\ v = 2 ^ 15 - 1

(* C10: the code is prefix-free. For distinct run lengths n, m in 1..3136  *)
(* the 2k-bit codeword of n is no prefix of the codeword of m, and         *)
(* rle_encode(n) differs from rle_encode(m).                               *)
C10_PrefixFree ==
    (pc = "decode" /\ n <= TilePlanePairs) =>
        \A m \in 1..TilePlanePairs :
            m = n \/ /\ encoded # EncodeTable[m]
                     /\ ~IsWordPrefix(encoded, WidthTable[n],
                                      EncodeTable[m], WidthTable[m])

C10_Witness == pc = "decode" /\ n = TilePlanePairs /\ encoded = EncodeTable[n]

(* C3: trailing bits are ignored. For every run length n and bit string t, *)
(* rle_decode of the number whose bits are the 2k-bit codeword of n and    *)
(* then t returns n.                                                       *)
C3_TrailingIgnored ==
    pc = "stream_done"
        => (outcome = "returned" /\ ~decoded.nan /\ decoded.val = n)

RECURSIVE LeadingOnes(_, _)
\* the number of one bits at the front of the w-bit word of value x
LeadingOnes(x, w) ==
    IF w = 0 THEN 0
    ELSE IF (x \div 2 ^ (w - 1)) % 2 = 1
         THEN 1 + LeadingOnes(x % 2 ^ (w - 1), w - 1)
         ELSE 0

\* the bits of e end before the 0 that terminates the unary prefix
PrefixUnterminated(e) == LeadingOnes(e, BitLen(e)) = BitLen(e)

\* the bits of e hold a k-bit prefix and fewer than k bits after it
ResidualShort(e) ==
    /\ ~PrefixUnterminated(e)
    /\ BitLen(e) < 2 * (LeadingOnes(e, BitLen(e)) + 1)

Truncated(e) == PrefixUnterminated(e) \/ ResidualShort(e)

\* the bits of e left after the prefix that was read
BitsAfterPrefix(e) ==
    IF PrefixUnterminated(e) THEN 0
    ELSE BitLen(e) - (LeadingOnes(e, BitLen(e)) + 1)

C5_PlaneLength ==
    pc = "bp_done" => (ret.defined /\ Len(ret.bits) = 2 * totalPairs)

(* C6: packets alternate; the data packet 11 10 followed by a run packet   *)
(* of length 1 (the stream 1 11 10 00) decodes to the pairs 11 10 00.      *)
C6_Alternation ==
    (pc = "bp_done" /\ bitplane = <<"1", "1", "1", "1", "0", "0", "0">>)
        => (ret.defined /\ ret.bits = <<"1", "1", "1", "0", "0", "0">>)

(* C7: rle_decode returns an integer >= 1 for every integer input >= 0.    *)
C7_AtLeastOne ==
    pc = "done" => (outcome = "returned" /\ ~decoded.nan /\ decoded.val >= 1)

\* 3 bits are the bits of no codeword: those are 0, 1 or 2k >= 4 bits long
C7_Witness ==
    pc = "done" /\ BitLen(encoded) = 3 /\ outcome = "returned" /\ decoded.val >= 1

===========================================================================
